---- MODULE Spec2Model ----
(***************************************************************************)
(* Model of src/src/main.ts (the final revision, lines 1-373): the chat-    *)
(* driven recording controller.  One cooperative execution context: the     *)
(* main loop, the recordSession coroutine it awaits, and the event-feed     *)
(* callback that publishes chat messages on a hot rxjs Subject.             *)
(***************************************************************************)
EXTENDS Integers, Sequences, FiniteSets

\* ------------------------------------------------------------------ bounds
\* number of distinct chat-message identifiers the feed can carry
NumIds == 2

\* ------------------------------------------------------- program constants
PollAttempts == 10
PollIntervalMs == 250
CountdownSeed == 601
LofChecks == 30
LofIntervalMs == 1000
UploadAttempts == 3
BackoffUnitMs == 2000

Ids == 1..NumIds

\* ---------------------------------------------------------------- messages
\* A chat text is a sequence of tokens; " " is one whitespace character and
\* ">" the quoting marker that precedes the text of a relayed chat line.
StartText == <<">", " ", "/start">>
StopText == <<">", " ", "/stop">>
BareStartText == <<"/start">>
Texts == {StartText, StopText, BareStartText}

RECURSIVE StripTrailingSpace(_)
StripTrailingSpace(s) ==
  IF Len(s) > 0 /\ s[Len(s)] = " "
  THEN StripTrailingSpace(SubSeq(s, 1, Len(s) - 1))
  ELSE s

\* (variant: the marker and the whitespace before the command are optional)
CommandMatchNoMarker(cmd, s) ==
  LET t == StripTrailingSpace(s)
  IN  Len(t) >= 1 /\ t[Len(t)] = cmd

\* message.match(/>\s+<cmd>\s*$/): the marker, at least one whitespace, the
\* command, optional whitespace, end of string.
CommandMatch(cmd, s) ==
  LET t == StripTrailingSpace(s)
      n == Len(t)
  IN  /\ n >= 3
      /\ t[n] = cmd
      /\ t[n - 1] = " "
      /\ LET u == StripTrailingSpace(SubSeq(t, 1, n - 1))
         IN  Len(u) >= 1 /\ u[Len(u)] = ">"

IsStart(message) == CommandMatch("/start", message)
IsStop(message) == CommandMatch("/stop", message)

\* newChatMessage payloads the feed delivers.  Identifiers only matter for
\* messages that can start a session; the others carry identifier 1.
ChatMessages ==
  {m \in [id : Ids, message : Texts] : IsStart(m.message) \/ m.id = 1}

NoMessage == [id |-> 0, message |-> <<>>]

\* ------------------------------------------------------------ remote side
\* env.RECORDING_DIRECTORY_PREFIX + "/" + sessionId; the session identifier
\* is abstracted to the identifier of the message that triggered it.
Dir(sessionId) == <<"prefix", sessionId>>

\* results of jamulusserver/getRecorderStatus
RecorderStatus ==
  [recordingDirectory : {Dir(m) : m \in Ids} \cup {<<"unset">>},
   enabled : BOOLEAN]

VARIABLES
  alive,        \* FALSE once eventSource.onerror called process.exit(1)
  env,          \* UPLOAD_ENDPOINT_URL / UPLOAD_ENDPOINT_KEY present?
  seenIds,      \* const seenIds = new Set<string>()
  mainPc,       \* position of main(): "listen", "session", "cleanup", "sleep"
  iter,         \* what the current loop iteration did with its /start
  lastEv,       \* chat message published by the step just taken, if any
  missed,       \* unseen /start ids published while a session was running
  sessPc,       \* position of recordSession / uploadRecording
  cur,          \* id of the message that triggered the latest session
  running,      \* recordSession calls that have not completed or failed
  started,      \* per message id: recordSession calls it triggered
  i,            \* pollFor: loop variable
  pollEvals,    \* pollFor: evaluations of f() in the current poll
  pollDelay,    \* pollFor: milliseconds slept in the current poll
  pollOutcome,  \* pollFor: "none", "running", "ok", "timeout", "error"
  calls,        \* per rpc method: calls issued in the latest session
  saw,          \* what status polls of the latest session reported
  a,            \* countdown accumulator of rxjs.scan
  ticks,        \* interval emissions processed in the latest session
  reminders,    \* reminder chat posts of the latest session, in order
  raceWinner,   \* "none", "stop" or "countdown"
  lofAttempt,   \* uploadRecording: manifest loop variable
  foundLofFile, \* uploadRecording: manifest seen
  attempt,      \* uploadRecording: upload loop variable
  putLog,       \* uploadRecording: outcome of each HTTP PUT, in order
  backoff,      \* uploadRecording: milliseconds slept between attempts
  notices,      \* chat posts issued by the latest session, by kind
  upload,       \* "none", "invoked", then how uploadRecording ended
  thrown,       \* error caught by recordSession's catch block
  mainLogged,   \* main logged "Error recording session"
  lofPolls,     \* uploadRecording: manifest checks made by the running loop
  lofDelay,     \* uploadRecording: milliseconds slept by the manifest loop
  lastSweep,    \* what the cleanup sweep that just returned found and did
                \* (kept for one state)
  earlyStop,    \* "dropped": a /stop was published in this session before
                \* the race; "overrun": and the countdown has ticked since
  settled       \* "fail": a reminder post has just been rejected

mainVars == <<alive, env, seenIds, mainPc, iter, missed, running, started, mainLogged>>
pollVars == <<i, pollEvals, pollDelay, pollOutcome>>
raceVars == <<a, ticks, reminders, raceWinner>>
uploadVars == <<lofAttempt, foundLofFile, attempt, putLog, backoff, upload>>
sessVars == <<sessPc, cur, calls, saw, notices, thrown>>
auxVars == <<lofPolls, lofDelay, lastSweep, earlyStop, settled>>
vars == <<mainVars, lastEv, pollVars, raceVars, uploadVars, sessVars, auxVars>>

\* the recorder-changing methods of interface RpcMethod
RpcMethods == {"setRecordingDirectory", "startRecording", "stopRecording"}
NoticeKinds == {"starting", "id", "warning", "stopped", "url", "retrying",
                "permanent", "error"}

\* outcome of an awaited HTTP request (ofetch resolves or rejects)
Outcomes == {"ok", "fail"}

Inc(f, k) == [f EXCEPT ![k] = @ + 1]

\* ------------------------------------------------------ recording root
\* What the glob "*" over the recording root can yield: a directory written
\* 61 minutes ago, one written 30 minutes ago, a plain file written 61
\* minutes ago, and a directory on which stat fails.
OldDir == [dir |-> TRUE, ageMin |-> 61, statError |-> FALSE]
YoungDir == [dir |-> TRUE, ageMin |-> 30, statError |-> FALSE]
OldFile == [dir |-> FALSE, ageMin |-> 61, statError |-> FALSE]
BrokenDir == [dir |-> TRUE, ageMin |-> 61, statError |-> TRUE]
RootEntries == {OldDir, YoungDir, OldFile, BrokenDir}

MinuteMs == 60 * 1000
\* const oneHourAgo = Date.now() - 3600 * 1000, with Date.now() taken as 0
OneHourAgo == 0 - 3600 * 1000
Mtime(e) == 0 - e.ageMin * MinuteMs

\* the first loop: entries whose stat succeeds and isDirectory()
ScannedDirs(listing) == {e \in listing : ~e.statError /\ e.dir}

\* stats.mtime.getTime() < oneHourAgo
Older(e) == Mtime(e) < OneHourAgo

\* the directories the second loop issues `rm -rf` for
ToRemove(listing) == {e \in ScannedDirs(listing) : Older(e)}

NoSweep == [ran |-> FALSE, listed |-> {}, issued |-> {}, gone |-> {}]

\* the session steps that precede the race of recordSession
BeforeRace == {"chat_starting", "set_dir", "poll_dir", "start_rec",
               "poll_enabled", "chat_id", "chat_warn"}

\* ------------------------------------------------------------------- Init
Init ==
  /\ alive = TRUE
  /\ env \in [url : BOOLEAN, key : BOOLEAN]
  /\ seenIds = {}
  /\ mainPc = "listen"
  /\ iter = "none"
  /\ lastEv = NoMessage
  /\ missed = {}
  /\ sessPc = "idle"
  /\ cur = 0
  /\ running = 0
  /\ started = [m \in Ids |-> 0]
  /\ i = 0
  /\ pollEvals = 0
  /\ pollDelay = 0
  /\ pollOutcome = "none"
  /\ calls = [k \in RpcMethods |-> 0]
  /\ saw = [dir |-> FALSE, enabled |-> FALSE, disabled |-> FALSE]
  /\ a = CountdownSeed
  /\ ticks = 0
  /\ reminders = <<>>
  /\ raceWinner = "none"
  /\ lofAttempt = 0
  /\ foundLofFile = FALSE
  /\ attempt = 1
  /\ putLog = <<>>
  /\ backoff = 0
  /\ notices = [k \in NoticeKinds |-> 0]
  /\ upload = "none"
  /\ thrown = "none"
  /\ mainLogged = FALSE
  /\ lofPolls = 0
  /\ lofDelay = 0
  /\ lastSweep = NoSweep
  /\ earlyStop = "none"
  /\ settled = "none"

\* ------------------------------------------------------------ subscriptions
\* (variant: a subscription made once, a handler that runs on every /start)
MainSubscribedAlways == TRUE

\* main is subscribed to `messages` only while firstValueFrom(...) is pending
MainSubscribed == mainPc = "listen"

\* (variant: the race is awaited but its sources are never subscribed)
RaceSubscribedNever == FALSE

\* (variant: the /stop filter is subscribed when the session starts)
RaceSubscribedFromStart == sessPc \in BeforeRace \cup {"recording"}

\* (variant: the interval is not unsubscribed when the race resolves)
RaceSubscribedLeaked == sessPc \in {"recording", "stop_rec"}

\* the /stop filter and the interval are subscribed only while the
\* firstValueFrom(merge(...)) of recordSession is pending
RaceSubscribed == sessPc = "recording"

\* (variant: the membership test is missing)
SeenNever(id) == FALSE

\* seenIds.has(id)
Seen(id) == id \in seenIds

\* the observation records of a session start from scratch
FreshSession ==
  /\ i' = 0 /\ pollEvals' = 0 /\ pollDelay' = 0 /\ pollOutcome' = "none"
  /\ calls' = [k \in RpcMethods |-> 0]
  /\ saw' = [dir |-> FALSE, enabled |-> FALSE, disabled |-> FALSE]
  /\ a' = CountdownSeed /\ ticks' = 0 /\ reminders' = <<>>
  /\ raceWinner' = "none"
  /\ lofAttempt' = 0 /\ foundLofFile' = FALSE /\ attempt' = 1
  /\ putLog' = <<>> /\ backoff' = 0 /\ upload' = "none"
  /\ notices' = [k \in NoticeKinds |-> 0]
  /\ thrown' = "none"
  /\ mainLogged' = FALSE
  /\ lofPolls' = 0 /\ lofDelay' = 0
  /\ lastSweep' = NoSweep
  /\ earlyStop' = "none"
  /\ settled' = "none"

\* ------------------------------------------------------------- event feed
\* eventSource.onmessage -> events.next: a /start reaches main's pending
\* firstValueFrom; main checks seenIds, then either `continue`s (the finally
\* block still runs) or records the id and calls recordSession.
mainStart(m) ==
  /\ alive
  /\ MainSubscribed
  /\ IsStart(m.message)
  /\ lastEv' = m
  /\ IF Seen(m.id)
     THEN /\ mainPc' = "cleanup"
          /\ iter' = "discarded"
          /\ UNCHANGED <<alive, env, seenIds, missed, running, started, mainLogged>>
          /\ UNCHANGED <<pollVars, raceVars, uploadVars, sessVars, auxVars>>
     ELSE /\ seenIds' = seenIds \cup {m.id}
          /\ missed' = missed \ {m.id}
          /\ mainPc' = "session"
          /\ iter' = "accepted"
          /\ cur' = m.id
          /\ sessPc' = "chat_starting"
          /\ running' = running + 1
          /\ started' = Inc(started, m.id)
          /\ FreshSession
          /\ UNCHANGED <<alive, env>>

\* a /stop reaches the pending race of recordSession
raceStop(m) ==
  /\ alive
  /\ RaceSubscribed
  /\ IsStop(m.message)
  /\ lastEv' = m
  /\ raceWinner' = "stop"
  /\ sessPc' = "stop_rec"
  /\ earlyStop' = "none"
  /\ settled' = "none"
  /\ UNCHANGED <<mainVars, pollVars, a, ticks, reminders, uploadVars,
                 cur, calls, saw, notices, thrown>>
  /\ UNCHANGED <<lofPolls, lofDelay, lastSweep>>

\* a Subject does not buffer: a message published while no subscriber's
\* filter accepts it is gone
dropped(m) ==
  /\ alive
  /\ ~(MainSubscribed /\ IsStart(m.message))
  /\ ~(RaceSubscribed /\ IsStop(m.message))
  /\ lastEv' = m
  /\ missed' = IF IsStart(m.message) /\ m.id \notin seenIds /\ running > 0
               THEN missed \cup {m.id} ELSE missed
  /\ earlyStop' = IF IsStop(m.message) /\ sessPc \in BeforeRace
                  THEN "dropped" ELSE earlyStop
  /\ settled' = "none"
  /\ lastSweep' = NoSweep
  /\ UNCHANGED <<alive, env, seenIds, mainPc, iter, running, started, mainLogged>>
  /\ UNCHANGED <<pollVars, raceVars, uploadVars, sessVars>>
  /\ UNCHANGED <<lofPolls, lofDelay>>

\* ---------------------------------------------------------- recordSession
\* an awaited call rejected: control moves to the catch block (line 192)
Throw(e) == sessPc' = "catch" /\ thrown' = e

PollBegin == i' = 0 /\ pollEvals' = 0 /\ pollDelay' = 0 /\ pollOutcome' = "running"
PollIdle == i' = 0 /\ pollEvals' = 0 /\ pollDelay' = 0 /\ pollOutcome' = "none"

\* await sendChat(`starting recording session...`)
sendChatStarting ==
  /\ alive /\ sessPc = "chat_starting"
  /\ lastEv' = NoMessage
  /\ notices' = Inc(notices, "starting")
  /\ \E r \in Outcomes :
       IF r = "ok" THEN sessPc' = "set_dir" /\ thrown' = thrown
       ELSE Throw("chat")
  /\ UNCHANGED <<mainVars, pollVars, raceVars, uploadVars, cur, calls, saw>>
  /\ UNCHANGED auxVars

\* await rpc("jamulusserver/setRecordingDirectory", {recordingDirectory: dir})
setRecordingDirectory ==
  /\ alive /\ sessPc = "set_dir"
  /\ lastEv' = NoMessage
  /\ calls' = Inc(calls, "setRecordingDirectory")
  /\ \E r \in Outcomes :
       IF r = "ok" THEN sessPc' = "poll_dir" /\ thrown' = thrown /\ PollBegin
       ELSE Throw("rpc") /\ PollIdle
  /\ UNCHANGED <<mainVars, raceVars, uploadVars, cur, saw, notices>>
  /\ UNCHANGED auxVars

\* (variant: any configured directory passes)
DirectorySetAny(status, dir) == status.recordingDirectory # <<"unset">>

\* the three predicates handed to pollFor
DirectorySet(status, dir) == status.recordingDirectory = dir
RecordingStarted(status) == status.enabled
RecordingStopped(status) == ~status.enabled

PollPcs == {"poll_dir", "poll_enabled", "poll_disabled"}

PollPredicate(pc, status) ==
  CASE pc = "poll_dir" -> DirectorySet(status, Dir(cur))
    [] pc = "poll_enabled" -> RecordingStarted(status)
    [] pc = "poll_disabled" -> RecordingStopped(status)

PollReturn(pc) ==
  CASE pc = "poll_dir" -> "start_rec"
    [] pc = "poll_enabled" -> "chat_id"
    [] pc = "poll_disabled" -> "chat_stopped"

\* (variant: off by one, i <= 10)
PollMoreOffByOne(n) == n <= PollAttempts

\* for (let i = 0; i < 10; i++)
PollMore(n) == n < PollAttempts

\* what a status result shows about the recorder: the target directory at
\* any time, enabled once startRecording was called, disabled once
\* stopRecording was called
Observe(status) ==
  [dir |-> saw.dir \/ status.recordingDirectory = Dir(cur),
   enabled |-> saw.enabled \/ (calls["startRecording"] > 0 /\ status.enabled),
   disabled |-> saw.disabled \/ (calls["stopRecording"] > 0 /\ ~status.enabled)]

\* one iteration of pollFor: if (await f()) return; await sleep(250)
pollFor ==
  /\ alive /\ sessPc \in PollPcs
  /\ PollMore(i)
  /\ lastEv' = NoMessage
  /\ \/ \E status \in RecorderStatus :
          /\ pollEvals' = pollEvals + 1
          /\ saw' = Observe(status)
          /\ thrown' = thrown
          /\ IF PollPredicate(sessPc, status)
             THEN /\ sessPc' = PollReturn(sessPc)
                  /\ pollOutcome' = "ok"
                  /\ UNCHANGED <<i, pollDelay>>
             ELSE /\ pollDelay' = pollDelay + PollIntervalMs
                  /\ i' = i + 1
                  /\ UNCHANGED <<sessPc, pollOutcome>>
     \/ /\ Throw("rpc")
        /\ pollOutcome' = "error"
        /\ UNCHANGED <<i, pollEvals, pollDelay, saw>>
  /\ UNCHANGED <<mainVars, raceVars, uploadVars, cur, calls, notices>>
  /\ UNCHANGED auxVars

\* throw new Error(`Timed out waiting for ${description}`)
pollTimeout ==
  /\ alive /\ sessPc \in PollPcs
  /\ ~PollMore(i)
  /\ lastEv' = NoMessage
  /\ pollOutcome' = "timeout"
  /\ Throw("timeout")
  /\ UNCHANGED <<mainVars, i, pollEvals, pollDelay, raceVars, uploadVars,
                 cur, calls, saw, notices>>
  /\ UNCHANGED auxVars

\* await rpc("jamulusserver/startRecording", {})
startRecording ==
  /\ alive /\ sessPc = "start_rec"
  /\ lastEv' = NoMessage
  /\ calls' = Inc(calls, "startRecording")
  /\ \E r \in Outcomes :
       IF r = "ok" THEN sessPc' = "poll_enabled" /\ thrown' = thrown /\ PollBegin
       ELSE Throw("rpc") /\ PollIdle
  /\ UNCHANGED <<mainVars, raceVars, uploadVars, cur, saw, notices>>
  /\ UNCHANGED auxVars

\* await sendChat(`your recording id is: ${sessionId}`), then the test of
\* env.UPLOAD_ENDPOINT_URL
sendChatId ==
  /\ alive /\ sessPc = "chat_id"
  /\ lastEv' = NoMessage
  /\ notices' = Inc(notices, "id")
  /\ PollIdle
  /\ \E r \in Outcomes :
       IF r = "ok"
       THEN /\ sessPc' = IF ~env.url THEN "chat_warn" ELSE "recording"
            /\ thrown' = thrown
       ELSE Throw("chat")
  /\ UNCHANGED <<mainVars, raceVars, uploadVars, cur, calls, saw>>
  /\ UNCHANGED auxVars

\* await sendChat(`WARNING: upload endpoint not set, ...`)
sendChatWarning ==
  /\ alive /\ sessPc = "chat_warn"
  /\ lastEv' = NoMessage
  /\ notices' = Inc(notices, "warning")
  /\ \E r \in Outcomes :
       IF r = "ok" THEN sessPc' = "recording" /\ thrown' = thrown
       ELSE Throw("chat")
  /\ UNCHANGED <<mainVars, pollVars, raceVars, uploadVars, cur, calls, saw>>
  /\ UNCHANGED auxVars

\* (variant: a < 30 in place of a <= 30)
ReminderBelow30(x) ==
  IF x % 60 = 0
  THEN <<[at |-> x, unit |-> "minutes", value |-> x \div 60]>>
  ELSE IF x < 30 /\ x % 10 = 0
       THEN <<[at |-> x, unit |-> "seconds", value |-> x]>>
       ELSE <<>>

\* the tap of the countdown: minutes when divisible by 60, else seconds
\* when at or below 30 and divisible by 10, else nothing
Reminder(x) ==
  IF x % 60 = 0
  THEN <<[at |-> x, unit |-> "minutes", value |-> x \div 60]>>
  ELSE IF x <= 30 /\ x % 10 = 0
       THEN <<[at |-> x, unit |-> "seconds", value |-> x]>>
       ELSE <<>>

\* rxjs.filter((a) => a <= 0)
CountdownOver(x) == x <= 0

\* one emission of rxjs.interval(1000) through scan, tap and filter
tick ==
  /\ alive /\ RaceSubscribed
  /\ lastEv' = NoMessage
  /\ a' = a - 1
  /\ ticks' = ticks + 1
  /\ reminders' = reminders \o Reminder(a')
  /\ IF CountdownOver(a')
     THEN raceWinner' = "countdown" /\ sessPc' = "stop_rec"
     ELSE UNCHANGED <<raceWinner, sessPc>>
  /\ earlyStop' = IF earlyStop = "dropped" THEN "overrun" ELSE "none"
  /\ settled' = "none"
  /\ UNCHANGED <<mainVars, pollVars, uploadVars, cur, calls, saw, notices, thrown>>
  /\ UNCHANGED <<lofPolls, lofDelay, lastSweep>>

\* (variant: the post is awaited without a handler and its rejection is
\* raised into recordSession)
ReminderRejectedRaised == Throw("chat")

\* .catch(onError) of a reminder post: console.error, nothing else
ReminderRejected == UNCHANGED <<sessPc, thrown>>

\* a reminder post issued by the tap settles some time after its tick; the
\* posts of the running race are not told apart
reminderSettled ==
  /\ alive /\ reminders # <<>>
  /\ lastEv' = NoMessage
  /\ \E r \in Outcomes :
       /\ settled' = IF r = "fail" THEN "fail" ELSE "none"
       /\ IF r = "fail" THEN ReminderRejected ELSE UNCHANGED <<sessPc, thrown>>
  /\ UNCHANGED <<mainVars, pollVars, raceVars, uploadVars, cur, calls, saw, notices>>
  /\ UNCHANGED <<lofPolls, lofDelay, lastSweep, earlyStop>>

\* the race is over: the scan accumulator went with the subscription, and
\* the record of the ticks is kept no longer than the state after the race
RaceReleased ==
  a' = CountdownSeed /\ ticks' = 0 /\ reminders' = <<>> /\ raceWinner' = raceWinner

\* await rpc("jamulusserver/stopRecording", {})
stopRecording ==
  /\ alive /\ sessPc = "stop_rec"
  /\ lastEv' = NoMessage
  /\ calls' = Inc(calls, "stopRecording")
  /\ RaceReleased
  /\ \E r \in Outcomes :
       IF r = "ok" THEN sessPc' = "poll_disabled" /\ thrown' = thrown /\ PollBegin
       ELSE Throw("rpc") /\ PollIdle
  /\ earlyStop' = "none"
  /\ settled' = "none"
  /\ UNCHANGED <<mainVars, uploadVars, cur, saw, notices>>
  /\ UNCHANGED <<lofPolls, lofDelay, lastSweep>>

\* await sendChat(`recording stopped`); then uploadRecording is called
sendChatStopped ==
  /\ alive /\ sessPc = "chat_stopped"
  /\ lastEv' = NoMessage
  /\ notices' = Inc(notices, "stopped")
  /\ PollIdle
  /\ \E r \in Outcomes :
       IF r = "ok"
       THEN sessPc' = "upload" /\ upload' = "invoked" /\ thrown' = thrown
       ELSE Throw("chat") /\ upload' = upload
  /\ UNCHANGED <<mainVars, raceVars, lofAttempt, foundLofFile, attempt, putLog,
                 backoff, cur, calls, saw>>
  /\ UNCHANGED auxVars

\* recordSession returns; main's finally block starts the cleanup
Return ==
  /\ sessPc' = "completed"
  /\ running' = running - 1
  /\ mainPc' = "cleanup"
  /\ UNCHANGED <<alive, env, seenIds, iter, missed, started, mainLogged, thrown>>

\* -------------------------------------------------------- uploadRecording
\* (variant: only the URL is tested)
UploadConfiguredUrlOnly == env.url

\* !env.UPLOAD_ENDPOINT_URL || !env.UPLOAD_ENDPOINT_KEY
UploadConfigured == env.url /\ env.key

uploadRecording ==
  /\ alive /\ sessPc = "upload"
  /\ lastEv' = NoMessage
  /\ IF ~UploadConfigured
     THEN upload' = "skipped" /\ Return
     ELSE sessPc' = "lof" /\ UNCHANGED <<mainVars, upload, thrown>>
  /\ UNCHANGED <<pollVars, raceVars, lofAttempt, foundLofFile, attempt, putLog,
                 backoff, cur, calls, saw, notices>>
  /\ UNCHANGED auxVars

\* (variant: off by one, attempt <= 30)
LofMoreOffByOne == lofAttempt <= LofChecks /\ ~foundLofFile

\* for (let attempt = 0; attempt < 30 && !foundLofFile; attempt++)
LofMore == lofAttempt < LofChecks /\ ~foundLofFile

\* one manifest check: found (break), not found or error (sleep 1000)
lofCheck ==
  /\ alive /\ sessPc = "lof"
  /\ LofMore
  /\ lastEv' = NoMessage
  /\ \E r \in {"found", "none", "error"} :
       IF r = "found"
       THEN /\ foundLofFile' = TRUE /\ sessPc' = "put"
            /\ UNCHANGED <<lofAttempt, lofDelay>>
       ELSE /\ lofAttempt' = lofAttempt + 1
            /\ lofDelay' = lofDelay + LofIntervalMs
            /\ UNCHANGED <<foundLofFile, sessPc>>
  /\ lofPolls' = lofPolls + 1
  /\ UNCHANGED <<mainVars, pollVars, raceVars, attempt, putLog, backoff, upload,
                 cur, calls, saw, notices, thrown>>
  /\ UNCHANGED <<lastSweep, earlyStop, settled>>

lofGiveUp ==
  /\ alive /\ sessPc = "lof"
  /\ ~LofMore
  /\ lastEv' = NoMessage
  /\ sessPc' = "put"
  /\ UNCHANGED <<mainVars, pollVars, raceVars, uploadVars, cur, calls, saw,
                 notices, thrown>>
  /\ UNCHANGED auxVars

\* for (let attempt = 1; attempt <= 3; attempt++)
UploadMore(n) == n <= UploadAttempts

\* zip and PUT: an exception or a non-2xx status, a 2xx with result.url, or
\* a 2xx without it.  The manifest loop's variable is out of scope here.
put ==
  /\ alive /\ sessPc = "put"
  /\ UploadMore(attempt)
  /\ lastEv' = NoMessage
  /\ \E r \in {"error", "ok_url", "ok_nourl"} :
       /\ putLog' = Append(putLog, r)
       /\ CASE r = "error" -> sessPc' = "up_catch" /\ UNCHANGED <<mainVars, upload, thrown>>
            [] r = "ok_url" -> sessPc' = "post_url" /\ UNCHANGED <<mainVars, upload, thrown>>
            [] r = "ok_nourl" -> upload' = "marker" /\ Return
  /\ lofAttempt' = 0 /\ lofPolls' = 0 /\ lofDelay' = 0
  /\ UNCHANGED <<pollVars, raceVars, foundLofFile, attempt, backoff,
                 cur, calls, saw, notices>>
  /\ UNCHANGED <<lastSweep, earlyStop, settled>>

\* await sendChat(`recording is available at: ${result.url}`); return result.url
postUrl ==
  /\ alive /\ sessPc = "post_url"
  /\ lastEv' = NoMessage
  /\ notices' = Inc(notices, "url")
  /\ \E r \in Outcomes :
       IF r = "ok" THEN upload' = "url" /\ Return
       ELSE sessPc' = "up_catch" /\ UNCHANGED <<mainVars, upload, thrown>>
  /\ UNCHANGED <<pollVars, raceVars, lofAttempt, foundLofFile, attempt, putLog,
                 backoff, cur, calls, saw>>
  /\ UNCHANGED auxVars

\* setTimeout(resolve, 2000 * attempt)
BackoffMs(n) == BackoffUnitMs * n

\* attempt === 3
LastAttempt(n) == n = UploadAttempts

\* the catch block of an upload attempt (lines 271-282): its chat posts are
\* awaited inside the catch block, so their rejection leaves uploadRecording
uploadCatch ==
  /\ alive /\ sessPc = "up_catch"
  /\ lastEv' = NoMessage
  /\ IF LastAttempt(attempt)
     THEN /\ notices' = Inc(notices, "permanent")
          /\ UNCHANGED <<attempt, backoff>>
          /\ \E r \in Outcomes :
               IF r = "ok" THEN upload' = "null" /\ Return
               ELSE upload' = "raised" /\ Throw("chat") /\ UNCHANGED mainVars
     ELSE /\ notices' = Inc(notices, "retrying")
          /\ \E r \in Outcomes :
               IF r = "ok"
               THEN /\ backoff' = backoff + BackoffMs(attempt)
                    /\ attempt' = attempt + 1
                    /\ sessPc' = "put"
                    /\ UNCHANGED <<mainVars, upload, thrown>>
               ELSE /\ upload' = "raised" /\ Throw("chat")
                    /\ UNCHANGED <<mainVars, attempt, backoff>>
  /\ UNCHANGED <<pollVars, raceVars, lofAttempt, foundLofFile, putLog,
                 cur, calls, saw>>
  /\ UNCHANGED auxVars

\* ------------------------------------------------------- failure handling
\* (variant: the catch block rethrows without the chat notice)
PostErrorNoticeMissing == notices' = notices

\* sendChat(`An error occurred while recording...`)
PostErrorNotice == notices' = Inc(notices, "error")

\* catch (e) { await sendChat(`An error occurred while recording...`); throw e }
\* and main's catch: log, console.error; then the finally block
recordSessionCatch ==
  /\ alive /\ sessPc = "catch"
  /\ lastEv' = NoMessage
  /\ PostErrorNotice
  /\ PollIdle
  /\ \E r \in Outcomes : thrown' = IF r = "ok" THEN thrown ELSE "chat"
  /\ sessPc' = "failed"
  /\ running' = running - 1
  /\ mainLogged' = TRUE
  /\ mainPc' = "cleanup"
  /\ earlyStop' = "none"
  /\ UNCHANGED <<alive, env, seenIds, iter, missed, started>>
  /\ UNCHANGED <<raceVars, uploadVars, cur, calls, saw>>
  /\ UNCHANGED <<lofPolls, lofDelay, lastSweep, settled>>

\* ------------------------------------------------------------------- main
\* finally { await cleanupRecordingFolders(); ... }: the root is listed,
\* the old directories are picked, and `rm -rf` is issued for each of them
\* with Bun.$ but not awaited, so which of them are gone when the sweep
\* returns is not determined by the program.
cleanupRecordingFolders ==
  /\ alive /\ mainPc = "cleanup"
  /\ lastEv' = NoMessage
  /\ mainPc' = "sleep"
  /\ \E listing \in SUBSET RootEntries :
       \E gone \in SUBSET ToRemove(listing) :
         lastSweep' = [ran |-> TRUE, listed |-> listing,
                       issued |-> ToRemove(listing), gone |-> gone]
  /\ UNCHANGED <<alive, env, seenIds, iter, missed, running, started, mainLogged>>
  /\ UNCHANGED <<pollVars, raceVars, uploadVars, sessVars>>
  /\ UNCHANGED <<lofPolls, lofDelay, earlyStop, settled>>

\* await new Promise((resolve) => setTimeout(resolve, 1000)); next iteration
mainSleep ==
  /\ alive /\ mainPc = "sleep"
  /\ lastEv' = NoMessage
  /\ mainPc' = "listen"
  /\ iter' = "none"
  /\ lastSweep' = NoSweep
  /\ UNCHANGED <<alive, env, seenIds, missed, running, started, mainLogged>>
  /\ UNCHANGED <<pollVars, raceVars, uploadVars, sessVars>>
  /\ UNCHANGED <<lofPolls, lofDelay, earlyStop, settled>>

\* eventSource.onerror: console.error(event); process.exit(1).  The process
\* and all its state are gone.
onerror ==
  /\ alive
  /\ alive' = FALSE
  /\ env' = env
  /\ seenIds' = {} /\ mainPc' = "exited" /\ iter' = "none"
  /\ lastEv' = NoMessage /\ missed' = {}
  /\ sessPc' = "idle" /\ cur' = 0 /\ running' = 0
  /\ started' = [m \in Ids |-> 0]
  /\ FreshSession

Next ==
  \/ \E m \in ChatMessages : mainStart(m)
  \/ \E m \in ChatMessages : raceStop(m)
  \/ \E m \in ChatMessages : dropped(m)
  \/ sendChatStarting
  \/ setRecordingDirectory
  \/ pollFor
  \/ pollTimeout
  \/ startRecording
  \/ sendChatId
  \/ sendChatWarning
  \/ tick
  \/ reminderSettled
  \/ stopRecording
  \/ sendChatStopped
  \/ uploadRecording
  \/ lofCheck
  \/ lofGiveUp
  \/ put
  \/ postUrl
  \/ uploadCatch
  \/ recordSessionCatch
  \/ cleanupRecordingFolders
  \/ mainSleep
  \/ onerror

Spec == Init /\ [][Next]_vars

\* The steps of the one execution context: every awaited remote call, chat
\* post, upload request and file check settles, and every timer fires.
\* Chat events and the failure of the feed are left to the environment.
Progress ==
  \/ sendChatStarting
  \/ setRecordingDirectory
  \/ pollFor
  \/ pollTimeout
  \/ startRecording
  \/ sendChatId
  \/ sendChatWarning
  \/ tick
  \/ stopRecording
  \/ sendChatStopped
  \/ uploadRecording
  \/ lofCheck
  \/ lofGiveUp
  \/ put
  \/ postUrl
  \/ uploadCatch
  \/ recordSessionCatch
  \/ cleanupRecordingFolders
  \/ mainSleep

FairSpec == Spec /\ WF_vars(Progress)

\* ------------------------------------------------- the two command filters
\* Chat texts around a command word: what precedes it, the word itself in
\* either case or another word, and what follows it.
Prefixes == {<<>>, <<" ">>, <<"x">>, <<"x", " ">>, <<">">>, <<">", " ">>,
             <<">", " ", " ">>, <<"x", ">", " ">>, <<">", "x", " ">>}
Words == {"/start", "/stop", "/START", "/STOP", "x"}
Suffixes == {<<>>, <<" ">>, <<" ", " ">>, <<"x">>, <<" ", "x">>}
WideTexts == {p \o <<w>> \o q : p \in Prefixes, w \in Words, q \in Suffixes}
WideMessages == ChatMessages \cup [id : {1}, message : WideTexts]

\* recordSession has entered the race (line 158) in the first session of
\* the process
RecordingEntered ==
  /\ alive = TRUE
  /\ env \in [url : BOOLEAN, key : BOOLEAN]
  /\ seenIds = {1}
  /\ mainPc = "session"
  /\ iter = "accepted"
  /\ lastEv = NoMessage
  /\ missed = {}
  /\ sessPc = "recording"
  /\ cur = 1
  /\ running = 1
  /\ started = [m \in Ids |-> IF m = 1 THEN 1 ELSE 0]
  /\ i = 0
  /\ pollEvals = 0
  /\ pollDelay = 0
  /\ pollOutcome = "none"
  /\ calls = [k \in RpcMethods |-> IF k = "stopRecording" THEN 0 ELSE 1]
  /\ saw = [dir |-> TRUE, enabled |-> TRUE, disabled |-> FALSE]
  /\ a = CountdownSeed
  /\ ticks = 0
  /\ reminders = <<>>
  /\ raceWinner = "none"
  /\ lofAttempt = 0
  /\ foundLofFile = FALSE
  /\ attempt = 1
  /\ putLog = <<>>
  /\ backoff = 0
  /\ notices = [k \in NoticeKinds |->
                  IF k \in {"starting", "id"} \/ (k = "warning" /\ ~env.url)
                  THEN 1 ELSE 0]
  /\ upload = "none"
  /\ thrown = "none"
  /\ mainLogged = FALSE
  /\ lofPolls = 0
  /\ lofDelay = 0
  /\ lastSweep = NoSweep
  /\ earlyStop = "none"
  /\ settled = "none"

\* The filters of lines 345 and 160 applied to every text of WideTexts: the
\* feed publishes to a main loop awaiting /start and to a session awaiting
\* the end of its race.
MatchInit == Init \/ RecordingEntered

MatchNext ==
  \/ \E m \in WideMessages : mainStart(m)
  \/ \E m \in WideMessages : raceStop(m)
  \/ \E m \in WideMessages : dropped(m)

MatchSpec == MatchInit /\ [][MatchNext]_vars

\* ================================================================= claims

\* C1: every message identifier triggers at most one session in the process
\* lifetime: an identifier has started a session exactly when it is in
\* seenIds (it is recorded before the session runs), and never twice.
C1_OneSessionPerId ==
  /\ \A m \in Ids : started[m] <= 1 /\ (started[m] = 1 <=> m \in seenIds)
  /\ running > 0 => cur \in seenIds

\* a second /start with an already seen identifier reached the listening
\* main loop and was discarded
C1_Witness ==
  /\ iter = "discarded"
  /\ IsStart(lastEv.message)
  /\ lastEv.id \in seenIds
  /\ started[lastEv.id] = 1

\* C2: at most one recordSession call is in progress at any time, and main
\* is at its `await recordSession` exactly while one is.
C2_OneSessionAtATime ==
  /\ running <= 1
  /\ (running = 1) <=> (mainPc = "session")
  /\ mainPc = "listen" => running = 0

\* a /start with another identifier was published while a session ran
C2_Witness ==
  /\ running = 1
  /\ sessPc = "recording"
  /\ IsStart(lastEv.message)
  /\ lastEv.id # cur

\* C3: the remote calls of a session follow the state order: each of the
\* three recorder calls at most once; status is polled only after
\* setRecordingDirectory; startRecording only after a poll reported the
\* target directory; stopRecording only after a poll reported enabled and
\* the race resolved; the upload only after a poll reported disabled.
C3_CallOrder ==
  /\ \A k \in RpcMethods : calls[k] <= 1
  /\ (pollEvals > 0 \/ saw.dir) => calls["setRecordingDirectory"] = 1
  /\ calls["startRecording"] = 1 =>
       calls["setRecordingDirectory"] = 1 /\ saw.dir
  /\ calls["stopRecording"] = 1 =>
       calls["startRecording"] = 1 /\ saw.enabled /\ raceWinner # "none"
  /\ upload # "none" => calls["stopRecording"] = 1 /\ saw.disabled

\* a session went through the whole order and reached the upload
C3_Witness ==
  /\ sessPc = "upload"
  /\ upload = "invoked"
  /\ calls = [k \in RpcMethods |-> 1]

\* C4: a poll evaluates its predicate at most 10 times, sleeps 250 ms after
\* every evaluation that was false, times out after exactly 10 evaluations
\* (2500 ms >= 2000 ms of delay), and returns at the first evaluation that
\* is true without a further status call.
C4_PollBounded ==
  /\ pollEvals <= 10
  /\ pollOutcome = "running" => pollDelay = 250 * pollEvals
  /\ pollOutcome = "timeout" =>
       pollEvals = 10 /\ pollDelay = 10 * 250 /\ pollDelay >= 2000
  /\ pollOutcome = "ok" =>
       pollEvals \in 1..10 /\ pollDelay = 250 * (pollEvals - 1)

\* a poll whose predicate was never satisfied has timed out
C4_Witness ==
  /\ pollOutcome = "timeout"
  /\ sessPc = "catch"
  /\ thrown = "timeout"
  /\ pollEvals = 10

\* number of reminders due for the remaining counts x..600
RemindersDue(x) ==
  IF x > 600 THEN 0
  ELSE (10 - ((x + 59) \div 60) + 1)
       + (IF x <= 10 THEN 3 ELSE IF x <= 20 THEN 2 ELSE IF x <= 30 THEN 1 ELSE 0)

\* C5: the countdown starts at 601 and loses one per tick; every tick whose
\* remaining count is divisible by 60 posts that many minutes, every other
\* tick at or below 30 and divisible by 10 posts that many seconds, no
\* other tick posts; without /stop the race ends after exactly 601 ticks,
\* having posted minutes 10..1 at 600..60 and seconds at 30, 20, 10.
C5_Countdown ==
  /\ ticks = 601 - a
  /\ sessPc = "recording" => a > 0
  /\ \A k \in 1..Len(reminders) :
       LET r == reminders[k]
       IN  /\ r.at \in a..600
           /\ k > 1 => r.at < reminders[k - 1].at
           /\ \/ r.at % 60 = 0 /\ r.unit = "minutes" /\ r.value * 60 = r.at
              \/ /\ r.at % 60 # 0 /\ r.at <= 30 /\ r.at % 10 = 0
                 /\ r.unit = "seconds" /\ r.value = r.at
  /\ Len(reminders) = RemindersDue(a)
  /\ (raceWinner = "countdown" /\ sessPc = "stop_rec") =>
       /\ ticks = 601
       /\ \A n \in 1..10 :
            \E k \in 1..Len(reminders) :
              reminders[k] = [at |-> 60 * n, unit |-> "minutes", value |-> n]
       /\ \A x \in {30, 20, 10} :
            \E k \in 1..Len(reminders) :
              reminders[k] = [at |-> x, unit |-> "seconds", value |-> x]

\* a full countdown with no /stop has just ended
C5_Witness ==
  /\ raceWinner = "countdown"
  /\ sessPc = "stop_rec"
  /\ ticks = 601

\* C6: a /stop published while the session is in Recording resolves the
\* race at once, whatever count remains; once the race is resolved no tick
\* is processed and no reminder posted, and the next thing the session
\* does is the stopRecording call.
C6_StopEndsRace ==
  [][ /\ (sessPc = "recording" /\ IsStop(lastEv'.message)) =>
           /\ sessPc' = "stop_rec"
           /\ raceWinner' = "stop"
           /\ ticks' = ticks
           /\ reminders' = reminders
      /\ raceWinner # "none" =>
           ticks' <= ticks /\ Len(reminders') <= Len(reminders)
      /\ (sessPc = "stop_rec" /\ sessPc' # "stop_rec" /\ alive') =>
           calls' = Inc(calls, "stopRecording")
    ]_vars

\* a /stop ended a countdown that still had ticks to go
C6_Witness ==
  /\ raceWinner = "stop"
  /\ sessPc = "stop_rec"
  /\ IsStop(lastEv.message)
  /\ ticks > 0
  /\ a > 1

\* C7: a failed session has posted exactly one generic error notice, its
\* failure was raised to main and logged there, the process is alive, and
\* main has gone on to cleanup, its pause, or listening again; a completed
\* session has posted none.
C7_FailureHandled ==
  /\ notices["error"] <= 1
  /\ sessPc = "failed" =>
       /\ notices["error"] = 1
       /\ mainLogged
       /\ alive
       /\ running = 0
       /\ mainPc \in {"cleanup", "sleep", "listen"}
  /\ sessPc \in {"catch", "completed"} => notices["error"] = 0

\* a session failed at the directory-set timeout and main listens again
C7_Witness ==
  /\ sessPc = "failed"
  /\ thrown = "timeout"
  /\ calls["startRecording"] = 0
  /\ notices["error"] = 1
  /\ mainPc = "listen"

\* C8: once the upload pipeline has been invoked the session cannot fail:
\* nothing is raised from it to recordSession and no generic error notice
\* is posted.
C8_UploadNeverFailsSession ==
  upload # "none" =>
    /\ sessPc \notin {"catch", "failed"}
    /\ upload # "raised"
    /\ notices["error"] = 0

\* the upload pipeline has been left, by return or by exception
UploadLeft == upload \notin {"none", "invoked"}

\* total backoff slept before upload attempt n: 2000 * (1 + ... + (n - 1))
BackoffBefore(n) == 1000 * n * (n - 1)

\* C9: at most 3 upload attempts, 2000 x k ms slept after failed attempt k;
\* attempts 1 and 2 failing and attempt 3 succeeding returns the URL after
\* 2000 + 4000 ms of backoff; 3 failed attempts post the permanent-failure
\* notice and return an absent result, with no 4th attempt.
C9_UploadRetries ==
  /\ Len(putLog) <= 3
  /\ sessPc = "put" => backoff = BackoffBefore(attempt)
  /\ (UploadLeft /\ putLog = <<"error", "error", "ok_url">>) =>
       upload = "url" /\ backoff = 2000 + 4000
  /\ (UploadLeft /\ putLog = <<"error", "error", "error">>) =>
       upload = "null" /\ notices["permanent"] = 1

\* C10 as stated: a /start with an unseen identifier published while a
\* session is in progress is kept for the main loop, so no such /start is
\* still without its session when the main loop is back at listening.
C10_StartKept == mainPc = "listen" => missed = {}

\* C10 (amended): a /start published while the main loop is not at its
\* firstValueFrom is dropped: it changes neither seenIds nor the sessions
\* nor the position of main and of the session, and the identifier starts
\* no session unless it is published again while main listens.
C10_StartDropped ==
  /\ [](\A m \in missed : started[m] = 0 /\ m \notin seenIds)
  /\ [][ (mainPc # "listen" /\ IsStart(lastEv'.message)) =>
           /\ seenIds' = seenIds
           /\ started' = started
           /\ running' = running
           /\ mainPc' = mainPc
           /\ sessPc' = sessPc
       ]_vars

\* a /start was dropped during a session; the session is over and main is
\* listening again with nothing pending
C10_Witness ==
  /\ missed # {}
  /\ mainPc = "listen"
  /\ sessPc \in {"completed", "failed"}
  /\ \A m \in missed : started[m] = 0

\* the steps and the chat notices of the upload pipeline
UploadPcs == {"lof", "put", "post_url", "up_catch"}
UploadNotices == {"url", "retrying", "permanent"}

\* C11: when the upload URL or the upload key is absent, uploadRecording
\* returns at once without error and without effect: no manifest check, no
\* archive and no HTTP request, no chat message of its own, and the session
\* still completes.
C11_SkipHasNoEffect ==
  (~env.url \/ ~env.key) =>
    /\ sessPc \notin UploadPcs
    /\ lofPolls = 0 /\ lofDelay = 0 /\ ~foundLofFile
    /\ putLog = <<>> /\ backoff = 0
    /\ \A k \in UploadNotices : notices[k] = 0
    /\ upload \in {"none", "invoked", "skipped"}
    /\ upload = "skipped" =>
         /\ sessPc = "completed" /\ mainPc # "session"
         /\ thrown = "none" /\ notices["error"] = 0
         /\ notices["stopped"] = 1

\* a session completed with the upload skipped although the URL is set: the
\* key is absent
C11_Witness ==
  upload = "skipped" /\ sessPc = "completed" /\ env.url /\ ~env.key

\* the manifest loop has ended and no upload attempt has been made yet
LofLoopLeft == sessPc = "put" /\ putLog = <<>>

\* C12: with upload configured, the manifest is checked at most 30 times,
\* one second after each failed check (a check that raises an error counts
\* as failed); a manifest found on check k ends the polling at check k; and
\* after 30 failed checks the archive-and-upload attempts are still made.
C12_ManifestPolling ==
  /\ [](/\ lofPolls <= 30
        /\ sessPc = "lof" =>
             /\ env.url /\ env.key /\ ~foundLofFile
             /\ lofPolls = lofAttempt /\ lofDelay = 1000 * lofPolls
        /\ LofLoopLeft =>
             \/ /\ foundLofFile /\ lofPolls \in 1..30
                /\ lofDelay = 1000 * (lofPolls - 1)
             \/ /\ ~foundLofFile /\ lofPolls = 30 /\ lofDelay = 30 * 1000)
  /\ [][/\ (sessPc = "lof" /\ sessPc' # "lof" /\ alive') => LofLoopLeft'
        /\ (sessPc = "lof" /\ foundLofFile') => sessPc' = "put"
        /\ LofLoopLeft => lofPolls' \in {lofPolls, 0}]_vars

\* thirty checks found no manifest and the first upload attempt is about to
\* be made
C12_Witness ==
  LofLoopLeft /\ ~foundLofFile /\ lofPolls = 30 /\ attempt = 1

\* C13: a cleanup sweep has run whenever main is at the pause that ends an
\* iteration, and the sweep that has just returned has deleted exactly the
\* immediate subdirectories of the recording root last modified more than
\* one hour ago (61 minutes: deleted, 30 minutes: kept), a directory whose
\* inspection fails being passed over without stopping the sweep.
C13_SweepDeletesOld ==
  /\ (mainPc = "sleep" /\ lastEv = NoMessage) => lastSweep.ran
  /\ lastSweep.ran =>
       lastSweep.gone =
         {e \in lastSweep.listed : e.dir /\ ~e.statError /\ e.ageMin > 60}

\* the text ends with the quoting marker, at least one whitespace, the
\* command and optional whitespace
Marked(cmd, t) ==
  \E p \in 1..Len(t) : \E q \in (p + 2)..Len(t) :
    /\ t[p] = ">" /\ t[q] = cmd
    /\ \A r \in (p + 1)..(q - 1) : t[r] = " "
    /\ \A r \in (q + 1)..Len(t) : t[r] = " "

\* the command is the final non-whitespace token of the text
FinalToken(cmd, t) ==
  \E q \in 1..Len(t) : t[q] = cmd /\ \A r \in (q + 1)..Len(t) : t[r] = " "

\* C14 as stated: the quoting marker and the whitespace before the command
\* are optional, so no text whose final non-whitespace token is /start, the
\* bare "/start" included, is left unrecognized by a listening main loop.
C14_FinalTokenStarts ==
  (mainPc = "listen" /\ lastEv # NoMessage) =>
    ~FinalToken("/start", lastEv.message)

\* C14, amended: a chat message is taken as the start command exactly when
\* its text ends with the quoting marker, one or more whitespace, /start
\* and optional whitespace; the marker and the whitespace are required, the
\* match is case-sensitive and anchored at the end, and the bare "/start"
\* begins no session.  /stop is matched by the same rule during the race.
C14_MarkerRequired ==
  /\ []((mainPc = "listen" /\ lastEv # NoMessage) =>
          ~Marked("/start", lastEv.message))
  /\ [][lastEv' # NoMessage =>
          /\ mainPc = "listen" =>
               (mainPc' # "listen" <=> Marked("/start", lastEv'.message))
          /\ sessPc = "recording" =>
               (sessPc' = "stop_rec" <=> Marked("/stop", lastEv'.message))]_vars

\* the bare "/start" was published to the listening main loop, which is
\* still listening and has started nothing
C14_Witness ==
  /\ lastEv.message = BareStartText
  /\ mainPc = "listen" /\ sessPc = "idle" /\ seenIds = {}

\* C15 as stated: /stop is evaluated for the lifetime of the session, so
\* after a /stop delivered before Recording the race is resolved for stop
\* and the countdown of that session does not run on.
C15_StopAnyTime == earlyStop # "overrun"

\* C15, amended: /stop is evaluated only while the race of the Recording
\* state is pending.  A /stop delivered at any other time, the directory-set
\* and start polling phases before Recording included, is dropped: it
\* changes nothing in the session, and the recording then runs until a
\* /stop delivered during Recording or the end of the countdown.
C15_StopOnlyInRace ==
  /\ [](earlyStop = "overrun" =>
          sessPc = "recording" /\ raceWinner = "none" /\ ticks = 1)
  /\ [][/\ (lastEv' # NoMessage /\ Marked("/stop", lastEv'.message)
              /\ sessPc # "recording") =>
             UNCHANGED <<sessPc, mainPc, raceWinner, a, ticks, reminders,
                         calls, notices, thrown, upload>>
        /\ (raceWinner' = "stop" /\ raceWinner # "stop") =>
             /\ sessPc = "recording" /\ sessPc' = "stop_rec"
             /\ Marked("/stop", lastEv'.message)
        /\ (sessPc = "recording" /\ sessPc' # "recording" /\ alive') =>
             raceWinner' = "stop" \/ (raceWinner' = "countdown" /\ a' = 0)]_vars

\* a /stop was dropped before the race and the countdown has ticked
C15_Witness == earlyStop = "overrun" /\ a = CountdownSeed - 1

\* C16: discarding a /start whose identifier is already in SeenIds has no
\* side effect: no session, no chat post or remote call, no cleanup sweep,
\* SeenIds unchanged, and the main loop is straight back at awaiting the
\* next /start, with no window in which it is not listening.
C16_DiscardNoEffect ==
  iter = "discarded" =>
    /\ mainPc = "listen" /\ MainSubscribed
    /\ ~lastSweep.ran
    /\ running = 0

\* C17: the 'upload endpoint not set' warning is posted on entry to
\* Recording exactly in the sessions whose upload will be skipped for lack
\* of configuration (URL or key absent): a session that skips its upload
\* has posted the warning, and a session that attempts the upload has not.
C17_WarningIffSkipped ==
  /\ upload = "skipped" => notices["warning"] = 1
  /\ (sessPc \in UploadPcs \/ putLog # <<>>) => notices["warning"] = 0
  /\ (sessPc = "recording" /\ (~env.url \/ ~env.key)) => notices["warning"] = 1

\* C18: the failure of a reminder post during the countdown is only logged:
\* it does not abort the countdown, resolve the race or fail the session,
\* the ticks and reminders go on after it, and a tick never waits for the
\* post it has issued to settle.
C18_ReminderFailureLogged ==
  /\ [](settled = "fail" =>
          /\ sessPc \in {"recording", "stop_rec"} /\ thrown = "none"
          /\ notices["error"] = 0
          /\ sessPc = "recording" => raceWinner = "none" /\ ENABLED tick)
  /\ [][/\ settled' = "fail" =>
             UNCHANGED <<sessPc, mainPc, a, ticks, reminders, raceWinner,
                         thrown, notices, calls, running, upload>>
        /\ ticks' = ticks + 1 =>
             /\ settled' = "none"
             /\ reminders' = reminders \o Reminder(a')]_vars

\* a reminder post failed after two reminders, and the session is still
\* recording
C18_Witness ==
  settled = "fail" /\ sessPc = "recording" /\ Len(reminders) >= 2

\* the reminders of one unit posted so far in the running race
Posted(unit) == {k \in 1..Len(reminders) : reminders[k].unit = unit}

\* C19: every reminder announces a strictly positive remaining time; the
\* final tick (remaining 0) posts none, so a countdown that runs to its end
\* has posted exactly 10 minute reminders and 3 second reminders.
C19_PositiveReminders ==
  /\ \A k \in 1..Len(reminders) : reminders[k].value > 0
  /\ (sessPc = "stop_rec" /\ raceWinner = "countdown") =>
       /\ Cardinality(Posted("minutes")) = 10
       /\ Cardinality(Posted("seconds")) = 3

\* C20: every accepted session terminates: when each remote call, chat post
\* and upload request returns or fails, a session that main is awaiting
\* reaches Completed or Failed, and main then runs the cleanup and listens
\* again (unless the feed fails and the process exits first).
C20_SessionTerminates ==
  (alive /\ mainPc = "session") ~>
    (~alive \/ (mainPc = "listen" /\ sessPc \in {"completed", "failed"}))

\* main is listening again after a session that ran its whole countdown and
\* all three upload attempts
C20_Witness ==
  /\ mainPc = "listen" /\ sessPc = "completed"
  /\ raceWinner = "countdown" /\ Len(putLog) = 3 /\ upload = "null"

\* C21: a session never ends leaving behind a recording it started: when
\* the session is Completed or Failed and its startRecording call was
\* issued, its stopRecording call was issued as well (also when the poll
\* for the recording to start timed out or a chat post failed after
\* startRecording).
C21_StartedIsStopped ==
  (sessPc \in {"completed", "failed"} /\ calls["startRecording"] >= 1) =>
    calls["stopRecording"] >= 1

\* the upload attempts so far that got no successful response
FailedPuts == {k \in 1..Len(putLog) : putLog[k] = "error"}

\* C22: once an upload attempt has received a successful (2xx) response,
\* no further attempt is made in that session and no 'retrying' or
\* permanent-failure notice is posted, even if the post of the resulting
\* URL fails: a successful attempt is the last one, and every such notice
\* answers an attempt that failed.
C22_SuccessIsFinal ==
  /\ \A k \in 1..(Len(putLog) - 1) : putLog[k] = "error"
  /\ notices["retrying"] + notices["permanent"] <= Cardinality(FailedPuts)

====
